---- MODULE Spec2Model ----
(***************************************************************************)
(* A model of two subsystems of the repository:                            *)
(*                                                                         *)
(*   - ShareDBService (dice/src/services/sharedbService.ts): the registry  *)
(*     of subscribed record documents and the translation of a field       *)
(*     update into a JSON0 operation;                                      *)
(*   - CachedFieldRepository / CachedRecordRepository                      *)
(*     (server/internal/infrastructure/repository/cached_repository.go):   *)
(*     the cache-aside wrappers around the authoritative repositories.     *)
(*                                                                         *)
(* The two subsystems share no state.  Spec is the specification of the    *)
(* subscriptions of a ShareDBService and of the events of its documents,   *)
(* SubmitSpec the one of its submitFieldUpdate, CacheSpec the one of the   *)
(* cached repositories.                                                    *)
(***************************************************************************)
EXTENDS Integers, Sequences, FiniteSets, TLC

VARIABLES
    \* ---- ShareDBService ----
    connected,       \* luckdbClient.sharedb.isConnected
    tableId,         \* ShareDBService.tableId
    subscribedDocs,  \* ShareDBService.subscribedDocs : recordId -> document handle (0: no entry)
    eventHandlers,   \* ShareDBService.eventHandlers  : recordId -> set of listeners
    docs,            \* the document handles the sync primitive has handed out, by handle number
    pending,         \* the subscribeRecord calls suspended at `await doc.subscribe()`
    active,          \* history: listeners whose subscribeRecord ran start to end since the last unsubscribeRecord
    out,             \* what the last step did that its caller or the listeners can observe
    \* ---- cached repositories ----
    wrapper,         \* which wrapper the instance is: "field" (CachedFieldRepository) or "record"
    ttl,             \* the wrapper's ttl field (seconds), as its constructor set it
    recStore,        \* the wrapped record repository's content: <<tableId, recordId>> -> record or Nil
    fldStore,        \* the wrapped field repository's content: fieldId -> field or Nil
    cache,           \* the cache provider's content: key -> cached value
    lastWrite,       \* history: per <<tableId, recordId>>, the record the last returned Save wrote
    providerFailed,  \* history: some call of the cache provider has failed
    cout,            \* what the last wrapper call did: its cache calls, repository calls and result
    inflight,        \* the FindByTableAndID and the Save under way, where their steps interleave
    txSaved,         \* the record store as it was when the open write transaction began, or NoTx
    getdb            \* the GetDB call: the wrapper chain it is on, how far it has unwrapped, its result

sdbVars   == <<connected, tableId, subscribedDocs, eventHandlers, docs, pending, active, out>>
callVars  == <<inflight, txSaved, getdb>>
cacheVars == <<wrapper, ttl, recStore, fldStore, cache, lastWrite, providerFailed, cout, callVars>>
vars      == <<sdbVars, cacheVars>>

(***************************************************************************)
(* Bounds and the small sets the inputs are drawn from.                    *)
(***************************************************************************)
MaxSubscribes == 2      \* subscribeRecord calls that get past the precondition checks

Records    == {"r1"}
Listeners  == {"l1", "l2"}
TableIds   == {"t1"}
FieldIds   == {"f1"}
Undefined  == "undefined"
Null       == "null"
\* The values submitFieldUpdate is called with: `undefined`, `null` and a present
\* value, a different one for newValue and for oldValue so that oi and od differ.
NewValues  == {Undefined, Null, "v1"}
OldValues  == {Undefined, Null, "v2"}

NoTable == "none"
NoDoc   == 0
NoOut   == [kind |-> "none"]

(***************************************************************************)
(* Helpers on sequences.                                                   *)
(***************************************************************************)
Range(s) == {s[i] : i \in DOMAIN s}

RemoveAt(s, i) == [j \in 1..(Len(s) - 1) |-> IF j < i THEN s[j] ELSE s[j + 1]]

RECURSIVE SumAdapters(_, _)
SumAdapters(ds, n) == IF n = 0 THEN 0 ELSE Len(ds[n].adapters) + SumAdapters(ds, n - 1)

\* The number of subscribeRecord calls that attached their adapters so far.
Started == SumAdapters(docs, Len(docs))

(***************************************************************************)
(* The document sync primitive (luckdbClient.sharedb): not part of the     *)
(* sources at hand, modelled from its interface.                           *)
(***************************************************************************)
\* rec_<tableId>
GetCollectionName(t) == <<"rec_", t>>

NewDoc(coll, r) ==
    [coll |-> coll, rec |-> r, destroys |-> 0, data |-> "none",
     subscribed |-> FALSE, adapters |-> <<>>]

Live(h) == h \in 1..Len(docs) /\ docs[h].destroys = 0

LiveDocs(coll, r) == {h \in 1..Len(docs) : Live(h) /\ docs[h].coll = coll /\ docs[h].rec = r}

\* getDocument(collection, recordId): the handle it returns is either a handle
\* it handed out before for that document and that is not destroyed, or a new one.
GetDocument(coll, r) == LiveDocs(coll, r) \cup {Len(docs) + 1}

(***************************************************************************)
(* ShareDBService                                                          *)
(***************************************************************************)
Connect ==
    /\ ~connected
    /\ connected' = TRUE
    /\ out' = NoOut
    /\ UNCHANGED <<tableId, subscribedDocs, eventHandlers, docs, pending, active>>
    /\ UNCHANGED cacheVars

Disconnect ==
    /\ connected
    /\ connected' = FALSE
    /\ out' = NoOut
    /\ UNCHANGED <<tableId, subscribedDocs, eventHandlers, docs, pending, active>>
    /\ UNCHANGED cacheVars

SetTableId(t) ==
    /\ tableId # t
    /\ tableId' = t
    /\ out' = NoOut
    /\ UNCHANGED <<connected, subscribedDocs, eventHandlers, docs, pending, active>>
    /\ UNCHANGED cacheVars

\* A slip that forgets the check of the table id.
CanSubscribeAnyTable(c, t) == c

\* subscribeRecord, lines 61-65 with getCollectionName, lines 51-53: the transport
\* is connected and the table id is set.
CanSubscribe(c, t) == c /\ t # NoTable

\* The registry and the documents, as one value that the steps of a call change.
Reg ==
    [sd |-> subscribedDocs, eh |-> eventHandlers, docs |-> docs, pending |-> pending,
     active |-> active]

SetReg(g) ==
    /\ subscribedDocs' = g.sd
    /\ eventHandlers' = g.eh
    /\ docs' = g.docs
    /\ pending' = g.pending
    /\ active' = g.active

\* subscribeRecord, lines 61-65: the two checks that throw.
SubscribeRecordThrows(r, cb) ==
    /\ ~CanSubscribe(connected, tableId)
    /\ out' = [kind |-> "subscribeRecord", rec |-> r, cb |-> cb, result |-> "error"]
    /\ UNCHANGED <<connected, tableId, subscribedDocs, eventHandlers, docs, pending, active>>
    /\ UNCHANGED cacheVars

\* subscribeRecord, lines 65-94, on the registry g: getDocument has returned the
\* handle h; the listener is registered, the adapters are attached and the call
\* is suspended at `await doc.subscribe()`.  `batch` tells whether a
\* subscribeRecords call awaits it.
StartOne(g, coll, r, cb, h, batch) ==
    LET ds == IF h > Len(g.docs) THEN Append(g.docs, NewDoc(coll, r)) ELSE g.docs
    IN  [g EXCEPT !.eh = [g.eh EXCEPT ![r] = @ \cup {cb}],
                  !.docs = [ds EXCEPT ![h].adapters = Append(@, cb)],
                  !.pending = Append(g.pending,
                                     [rec |-> r, cb |-> cb, doc |-> h, loads |-> 0,
                                      stale |-> FALSE, batch |-> batch])]

\* subscribeRecord, lines 61-94: up to the suspension at `await doc.subscribe()`.
SubscribeRecordStart(r, cb) ==
    /\ CanSubscribe(connected, tableId)
    /\ Started < MaxSubscribes
    /\ \E h \in GetDocument(GetCollectionName(tableId), r) :
          SetReg(StartOne(Reg, GetCollectionName(tableId), r, cb, h, "no"))
    /\ out' = NoOut
    /\ UNCHANGED <<connected, tableId>>
    /\ UNCHANGED cacheVars

\* getDocument(collection, recordId) on the handles ds: as GetDocument.
GetDocumentIn(ds, coll, r) ==
    {h \in 1..Len(ds) : ds[h].destroys = 0 /\ ds[h].coll = coll /\ ds[h].rec = r}
        \cup {Len(ds) + 1}

\* The arguments of subscribeRecords: lists of ids of the records of a table.
BatchRecords == {"r1", "r2"}
MaxBatch     == 2
BatchLists   == UNION {[1..n -> BatchRecords] : n \in 1..MaxBatch}

RECURSIVE StartAll(_, _, _, _)
\* subscribeRecords, lines 159-161: recordIds.map calls subscribeRecord for each
\* id in turn; each call runs to its `await doc.subscribe()` before the next
\* starts.  The registries that can result, one for each choice of getDocument.
StartAll(g, coll, ids, cb) ==
    IF ids = <<>> THEN {g}
    ELSE UNION {StartAll(StartOne(g, coll, Head(ids), cb, h, "awaited"), coll, Tail(ids), cb) :
                   h \in GetDocumentIn(g.docs, coll, Head(ids))}

\* subscribeRecords, lines 155-163, when subscribeRecord throws: every promise of
\* the list is rejected and Promise.all rejects.
SubscribeRecordsThrows(ids, cb) ==
    /\ ~CanSubscribe(connected, tableId)
    /\ out' = [kind |-> "subscribeRecords", recs |-> ids, cb |-> cb, result |-> "error"]
    /\ UNCHANGED <<connected, tableId, subscribedDocs, eventHandlers, docs, pending, active>>
    /\ UNCHANGED cacheVars

\* subscribeRecords, lines 155-162: up to the suspension at `await Promise.all`.
\* One subscribeRecords call is awaited at a time.
SubscribeRecordsStart(ids, cb) ==
    /\ CanSubscribe(connected, tableId)
    /\ Started + Len(ids) <= MaxSubscribes
    /\ \A i \in DOMAIN pending : pending[i].batch # "awaited"
    /\ \E g \in StartAll(Reg, GetCollectionName(tableId), ids, cb) : SetReg(g)
    /\ out' = [kind |-> "subscribeRecords", recs |-> ids, cb |-> cb, result |-> "pending"]
    /\ UNCHANGED <<connected, tableId>>
    /\ UNCHANGED cacheVars

\* The number of times the tail of subscribeRecord (lines 100-102) calls onUpdate.
PostSubscribeDeliveries(d) == IF d.data = "some" THEN 1 ELSE 0

\* Promise.all (line 162) on the settling of the call c: "resolved" when c
\* resolves and no other call of the batch is pending, "rejected" when c rejects,
\* "pending" otherwise; "none" when no subscribeRecords call awaits c.
BatchOutcome(c, others, rejected) ==
    IF c.batch # "awaited" THEN "none"
    ELSE IF rejected THEN "rejected"
    ELSE IF \E i \in DOMAIN others : others[i].batch = "awaited" THEN "pending"
    ELSE "resolved"

\* The calls of a batch that are still pending when its Promise.all has rejected
\* are awaited by nobody.
AfterBatch(others, outcome) ==
    [i \in DOMAIN others |->
        IF outcome = "rejected" /\ others[i].batch = "awaited"
        THEN [others[i] EXCEPT !.batch = "abandoned"]
        ELSE others[i]]

\* subscribeRecord, lines 94-103: doc.subscribe() has resolved.
SubscribeRecordResume(i) ==
    /\ i \in DOMAIN pending
    /\ LET c == pending[i]
           d == docs[c.doc]
           others == RemoveAt(pending, i)
       IN  /\ subscribedDocs' = [subscribedDocs EXCEPT ![c.rec] = c.doc]
           /\ docs' = [docs EXCEPT ![c.doc].subscribed = TRUE]
           /\ pending' = AfterBatch(others, BatchOutcome(c, others, FALSE))
           /\ active' = IF c.stale THEN active
                        ELSE [active EXCEPT ![c.rec] = @ \cup {c.cb}]
           /\ out' = [kind |-> "subscribed", rec |-> c.rec, cb |-> c.cb, doc |-> c.doc,
                      hadData |-> d.data = "some",
                      snapshots |-> c.loads + PostSubscribeDeliveries(d),
                      batch |-> BatchOutcome(c, others, FALSE)]
    /\ UNCHANGED <<connected, tableId, eventHandlers>>
    /\ UNCHANGED cacheVars

\* subscribeRecord, line 94: doc.subscribe() has rejected; the call throws.
SubscribeRecordRejects(i) ==
    /\ i \in DOMAIN pending
    /\ LET c == pending[i]
           others == RemoveAt(pending, i)
       IN  /\ pending' = AfterBatch(others, BatchOutcome(c, others, TRUE))
           /\ out' = [kind |-> "subscribeRecord", rec |-> c.rec, cb |-> c.cb,
                      result |-> "error", batch |-> BatchOutcome(c, others, TRUE)]
    /\ UNCHANGED <<connected, tableId, subscribedDocs, eventHandlers, docs, active>>
    /\ UNCHANGED cacheVars

\* The document's 'load' event: its data arrives while a subscribe is under way.
\* Every adapter attached to the handle runs handleLoad (lines 75-77).
DocLoad(h) ==
    /\ Live(h)
    /\ docs[h].data = "none"
    /\ ~docs[h].subscribed
    /\ \E i \in DOMAIN pending : pending[i].doc = h
    /\ docs' = [docs EXCEPT ![h].data = "some"]
    /\ pending' = [i \in DOMAIN pending |->
                     IF pending[i].doc = h
                     THEN [pending[i] EXCEPT !.loads = @ + 1]
                     ELSE pending[i]]
    /\ out' = [kind |-> "load", rec |-> docs[h].rec, doc |-> h, to |-> docs[h].adapters]
    /\ UNCHANGED <<connected, tableId, subscribedDocs, eventHandlers, active>>
    /\ UNCHANGED cacheVars

\* The document's 'op' event: every adapter runs handleOp (lines 79-81).
DocOp(h) ==
    /\ Live(h)
    /\ docs[h].subscribed
    /\ docs[h].data = "some"
    /\ out' = [kind |-> "op", rec |-> docs[h].rec, doc |-> h, to |-> docs[h].adapters]
    /\ UNCHANGED <<connected, tableId, subscribedDocs, eventHandlers, docs, pending, active>>
    /\ UNCHANGED cacheVars

\* handleError, lines 83-87: the event onUpdate is called with; `doc.data || {}`.
HandleError(d) ==
    [op |-> <<>>, source |-> FALSE, data |-> IF d.data = "none" THEN "empty" ELSE d.data]

\* The document's 'error' event: every adapter runs handleError (lines 83-87).
DocError(h) ==
    /\ Live(h)
    /\ docs[h].adapters # <<>>
    /\ out' = [kind |-> "error", rec |-> docs[h].rec, doc |-> h, to |-> docs[h].adapters,
               event |-> HandleError(docs[h])]
    /\ UNCHANGED <<connected, tableId, subscribedDocs, eventHandlers, docs, pending, active>>
    /\ UNCHANGED cacheVars

\* A slip that leaves the entry of the record in subscribedDocs.
KeepsStored(h) == h

\* unsubscribeRecord, line 112: subscribedDocs.delete(recordId).
StoredAfterUnsubscribe(h) == NoDoc

\* unsubscribeRecord, lines 108-115, on the registry g.
UnsubscribeOne(g, r) ==
    LET h == g.sd[r]
    IN  [sd |-> IF h # NoDoc THEN [g.sd EXCEPT ![r] = StoredAfterUnsubscribe(h)] ELSE g.sd,
         eh |-> [g.eh EXCEPT ![r] = {}],
         docs |-> IF h # NoDoc THEN [g.docs EXCEPT ![h].destroys = @ + 1] ELSE g.docs,
         pending |-> [i \in DOMAIN g.pending |->
                        IF g.pending[i].rec = r
                        THEN [g.pending[i] EXCEPT !.stale = TRUE]
                        ELSE g.pending[i]],
         active |-> [g.active EXCEPT ![r] = {}]]

RECURSIVE UnsubscribeEach(_, _)
\* unsubscribeRecords, lines 168-170: unsubscribeRecord for each id, in order.
UnsubscribeEach(g, rs) ==
    IF rs = <<>> THEN g ELSE UnsubscribeEach(UnsubscribeOne(g, Head(rs)), Tail(rs))

RECURSIVE FoundEach(_, _)
\* The handle each unsubscribeRecord of unsubscribeRecords finds stored, in order.
FoundEach(g, rs) ==
    IF rs = <<>> THEN <<>>
    ELSE <<g.sd[Head(rs)]>> \o FoundEach(UnsubscribeOne(g, Head(rs)), Tail(rs))

\* unsubscribeRecord, lines 108-115.
UnsubscribeRecord(r) ==
    /\ SetReg(UnsubscribeOne(Reg, r))
    /\ out' = [kind |-> "unsubscribeRecord", rec |-> r, doc |-> subscribedDocs[r],
               recs |-> <<r>>, found |-> FoundEach(Reg, <<r>>)]
    /\ UNCHANGED <<connected, tableId>>
    /\ UNCHANGED cacheVars

\* unsubscribeRecords, lines 168-170.
UnsubscribeRecords(rs) ==
    /\ SetReg(UnsubscribeEach(Reg, rs))
    /\ out' = [kind |-> "unsubscribeRecords", recs |-> rs, found |-> FoundEach(Reg, rs)]
    /\ UNCHANGED <<connected, tableId>>
    /\ UNCHANGED cacheVars

\* The arguments of unsubscribeRecords: lists of ids, an id twice included.
MaxUnsubscribeList == 2
UnsubscribeLists == UNION {[1..n -> Records] : n \in 1..MaxUnsubscribeList}

\* Array.from(this.subscribedDocs.keys()), line 176: the ids that have an entry.
\* Unsubscribing different ids commutes, so any one order of the keys will do.
SubscribedKeys(sd) ==
    LET S == {r \in DOMAIN sd : sd[r] # NoDoc}
    IN  CHOOSE o \in [1..Cardinality(S) -> S] : Range(o) = S

\* unsubscribeAll, lines 175-178.
UnsubscribeAll ==
    /\ SetReg(UnsubscribeEach(Reg, SubscribedKeys(subscribedDocs)))
    /\ out' = [kind |-> "unsubscribeAll", recs |-> SubscribedKeys(subscribedDocs),
               found |-> FoundEach(Reg, SubscribedKeys(subscribedDocs))]
    /\ UNCHANGED <<connected, tableId>>
    /\ UNCHANGED cacheVars

\* cleanup, lines 183-187: unsubscribeAll, then disconnect, then tableId = null.
Cleanup ==
    /\ SetReg(UnsubscribeEach(Reg, SubscribedKeys(subscribedDocs)))
    /\ connected' = FALSE
    /\ tableId' = NoTable
    /\ out' = [kind |-> "cleanup", recs |-> SubscribedKeys(subscribedDocs),
               found |-> FoundEach(Reg, SubscribedKeys(subscribedDocs)),
               order |-> <<"unsubscribeAll", "disconnect", "tableId = null">>]
    /\ UNCHANGED cacheVars

(***************************************************************************)
(* submitFieldUpdate: the JSON0 operation of a field update.               *)
(***************************************************************************)
\* line 133: newValue === undefined || newValue === null
NewValueAbsent(nv) == nv = Undefined \/ nv = Null

\* A slip that treats a null oldValue as not given.
OldValueGivenOrNull(ov) == ov # Undefined /\ ov # Null

\* lines 135 and 140: oldValue !== undefined
OldValueGiven(ov) == ov # Undefined

\* A slip that drops the old value from the replace entry.
BuildOpNoCheck(f, nv, ov) ==
    IF NewValueAbsent(nv)
    THEN IF OldValueGiven(ov) THEN <<[p |-> <<"data", f>>, od |-> ov]>> ELSE <<>>
    ELSE <<[p |-> <<"data", f>>, oi |-> nv]>>

\* lines 131-145: the operation list `op`.  An entry has the keys the code gives it.
BuildOp(f, nv, ov) ==
    IF NewValueAbsent(nv)
    THEN IF OldValueGiven(ov)
         THEN <<[p |-> <<"data", f>>, od |-> ov]>>
         ELSE <<>>
    ELSE IF OldValueGiven(ov)
         THEN <<[p |-> <<"data", f>>, oi |-> nv, od |-> ov]>>
         ELSE <<[p |-> <<"data", f>>, oi |-> nv]>>

\* A slip that submits whatever was built.
SubmitAlways(op) == <<op>>

\* lines 147-149: the arguments of the calls of doc.submitOp, in order.
SubmitOpCalls(op) == IF Len(op) > 0 THEN <<op>> ELSE <<>>

\* A slip that goes on without a stored handle.
IsSubscribedAlways(h) == TRUE

\* submitFieldUpdate, lines 126-127: `if (!doc)` on subscribedDocs.get(recordId).
IsSubscribed(h) == h # NoDoc

\* submitFieldUpdate, lines 120-150.  doc.submitOp may reject; the rejection
\* reaches the caller.
SubmitFieldUpdate(r, f, nv, ov) ==
    /\ IF ~IsSubscribed(subscribedDocs[r])
       THEN out' = [kind |-> "submitFieldUpdate", rec |-> r, field |-> f,
                    newValue |-> nv, oldValue |-> ov,
                    result |-> "not-subscribed", op |-> <<>>, submitted |-> <<>>]
       ELSE \E accepted \in BOOLEAN :
               out' = [kind |-> "submitFieldUpdate", rec |-> r, field |-> f,
                       newValue |-> nv, oldValue |-> ov,
                       result |-> IF accepted \/ SubmitOpCalls(BuildOp(f, nv, ov)) = <<>>
                                  THEN "ok" ELSE "rejected",
                       op |-> BuildOp(f, nv, ov),
                       submitted |-> SubmitOpCalls(BuildOp(f, nv, ov))]
    /\ UNCHANGED <<connected, tableId, subscribedDocs, eventHandlers, docs, pending, active>>
    /\ UNCHANGED cacheVars

(***************************************************************************)
(* The cached repositories.  An instance is one wrapper, a                 *)
(* CachedFieldRepository or a CachedRecordRepository; the two kinds use    *)
(* disjoint cache keys ("field:..." and "record:...").                     *)
(***************************************************************************)
Tables         == {"t1", "t2"}
RecIdSeq       == <<"r1">>
FieldIdSeq     == <<"f1">>
Values         == {"a1", "a2"}
ConfiguredTTLs == {0, 10}     \* the ttl the constructor is given, in seconds
Limits         == {1}
Offsets        == {0}

DefaultFieldTTL  == 300       \* 5 * time.Minute
DefaultRecordTTL == 120       \* 2 * time.Minute
ShortTTL         == 30        \* 30 * time.Second

RecIds   == Range(RecIdSeq)

\* The record ids of the tables with two records, in the order of repo.List.
AllRecIdSeq == <<"r1", "r2">>
AllRecIds   == Range(AllRecIdSeq)
FldIds   == Range(FieldIdSeq)

Nil == [nil |-> TRUE]
RecordEntity(t, r, v) == [tableId |-> t, id |-> r, val |-> v]
FieldEntity(f, t, v)  == [id |-> f, tableId |-> t, val |-> v]

\* NewCachedFieldRepository, lines 29-43.
NewCachedFieldRepository(t) == IF t = 0 THEN DefaultFieldTTL ELSE t

\* NewCachedRecordRepository, lines 255-269.
NewCachedRecordRepository(t) == IF t = 0 THEN DefaultRecordTTL ELSE t

\* A cache key is the sequence of the segments that fmt.Sprintf joins with ":".
\* CachedFieldRepository.buildCacheKey: "field:%s:%s".
FieldKey(prefix, id) == <<"field", prefix, id>>

\* CachedRecordRepository.buildCacheKey: "record:%s:%s:%s".
RecordKey(prefix, t, r) == <<"record", prefix, t, r>>

\* List, line 367: "record:list:%s:%d:%d".
ListKey(t, limit, offset) == <<"record", "list", t, ToString(limit), ToString(offset)>>

\* A slip that invalidates the lists of every table.
ListPatternAnyTable(t) == <<"record", "list", "*">>

\* Save, line 322: "record:list:%s:*".
ListPattern(t) == <<"record", "list", t, "*">>

\* invalidateCache, line 170: "field:table:%s".
FieldTablePattern(t) == <<"field", "table", t>>

(***************************************************************************)
(* The cache provider (CacheProvider): an interface of the package whose   *)
(* implementation is not part of the sources at hand.  A call that fails   *)
(* leaves the content as it is.  A "*" of a pattern matches one or more    *)
(* segments of a key.                                                      *)
(***************************************************************************)
RECURSIVE GlobMatch(_, _)
GlobMatch(p, k) ==
    IF p = <<>> THEN k = <<>>
    ELSE IF k = <<>> THEN FALSE
    ELSE IF Head(p) = "*"
         THEN GlobMatch(Tail(p), Tail(k)) \/ GlobMatch(p, Tail(k))
         ELSE Head(p) = Head(k) /\ GlobMatch(Tail(p), Tail(k))

\* One call of the provider: the function, its key (Get, Set), keys (Delete) or
\* pattern (InvalidatePattern), the ttl of a Set (0 otherwise) and how it ended:
\* "hit", "miss" (a Get), "ok" or "fail".
Call(fn, arg, t, res) == [fn |-> fn, arg |-> arg, ttl |-> t, res |-> res]

GetResult(c, key, fails) ==
    IF fails THEN "fail" ELSE IF key \in DOMAIN c THEN "hit" ELSE "miss"

Outcome(fails) == IF fails THEN "fail" ELSE "ok"

CacheSet(c, key, v) == [k \in DOMAIN c \cup {key} |-> IF k = key THEN v ELSE c[k]]

CacheDelete(c, keys) == [k \in DOMAIN c \ Range(keys) |-> c[k]]

CacheInvalidatePattern(c, pattern) ==
    [k \in {x \in DOMAIN c : ~GlobMatch(pattern, x)} |-> c[k]]

\* The content after the calls `calls` (with the values `vals` of the Sets), in order.
RECURSIVE ApplyCalls(_, _, _)
ApplyCalls(c, calls, val) ==
    IF calls = <<>> THEN c
    ELSE LET x == Head(calls)
             c1 == IF x.res # "ok" THEN c
                   ELSE IF x.fn = "Set" THEN CacheSet(c, x.arg, val)
                   ELSE IF x.fn = "Delete" THEN CacheDelete(c, x.arg)
                   ELSE IF x.fn = "InvalidatePattern" THEN CacheInvalidatePattern(c, x.arg)
                   ELSE c
         IN  ApplyCalls(c1, Tail(calls), val)

AnyFailed(calls) == \E i \in DOMAIN calls : calls[i].res = "fail"

(***************************************************************************)
(* The wrapped repositories.                                               *)
(***************************************************************************)
RECURSIVE RecordsOf(_, _)
\* The records of table t, in the order of their ids.
RecordsOf(t, ids) ==
    IF ids = <<>> THEN <<>>
    ELSE (IF <<t, Head(ids)>> \in DOMAIN recStore /\ recStore[<<t, Head(ids)>>] # Nil
          THEN <<recStore[<<t, Head(ids)>>]>> ELSE <<>>)
         \o RecordsOf(t, Tail(ids))

RECURSIVE FieldsOf(_, _)
\* The fields of table t, in the order of their ids.
FieldsOf(t, ids) ==
    IF ids = <<>> THEN <<>>
    ELSE (IF fldStore[Head(ids)] # Nil /\ fldStore[Head(ids)].tableId = t
          THEN <<fldStore[Head(ids)]>> ELSE <<>>)
         \o FieldsOf(t, Tail(ids))

Min(a, b) == IF a < b THEN a ELSE b

\* repo.List(ctx, filter): the page and the total.
RepoList(t, limit, offset) ==
    [records |-> SubSeq(RecordsOf(t, AllRecIdSeq), offset + 1,
                        Min(offset + limit, Len(RecordsOf(t, AllRecIdSeq)))),
     total   |-> Len(RecordsOf(t, AllRecIdSeq))]

(***************************************************************************)
(* A wrapper call: what it did and returned.                               *)
(***************************************************************************)
\* `before` are the provider calls issued before the calls `repo` of the wrapped
\* repository, `after` the ones issued after them; `calls` is all of them in
\* order and `trace` the order of all calls, a repository call being "repo".
\* `repoErr`: the wrapped repository's last call returned an error.
Ret(op, inTx, args, before, repo, repoErr, after, result, err) ==
    [op |-> op, inTx |-> inTx, args |-> args, calls |-> before \o after, repo |-> repo,
     repoErr |-> repoErr,
     trace |-> [i \in DOMAIN before |-> before[i].fn] \o [i \in DOMAIN repo |-> "repo"]
               \o [i \in DOMAIN after |-> after[i].fn],
     result |-> result, err |-> err]

\* No wrapper call has returned in the last step.
NoCall == Ret("none", FALSE, <<>>, <<>>, <<>>, FALSE, <<>>, Nil, FALSE)

\* A slip that returns the provider's error from a read.
ReadErrorOrCache(repoErr, calls) == repoErr \/ AnyFailed(calls)

\* The error a cached read returns (lines 64-66 and 77): the wrapped repository's.
ReadError(repoErr, calls) == repoErr

\* A slip that invalidates whether or not the wrapped mutation succeeded.
InvalidationAnyway(repoErr, inv) == inv

\* A write returns before any invalidation when the wrapped mutation fails
\* (lines 309-311).
InvalidationAfter(repoErr, inv) == IF repoErr THEN <<>> ELSE inv

\* A slip that returns the provider's error from a write.
WriteErrorOrCache(repoErr, calls) == repoErr \/ AnyFailed(calls)

\* The error a write returns (lines 309-311 and 329): the wrapped repository's.
WriteError(repoErr, calls) == repoErr

\* What a write did: the wrapped mutation first, then the invalidation `inv`
\* unless the mutation failed.
WriteRet(op, args, repo, repoErr, inv) ==
    Ret(op, FALSE, args, <<>>, repo, repoErr, InvalidationAfter(repoErr, inv), Nil,
        WriteError(repoErr, InvalidationAfter(repoErr, inv)))

\* No call is under way, no transaction is open, GetDB has not been called.
Idle   == [pc |-> "idle"]
NoTx   == [open |-> FALSE]
NoGetDB == [pc |-> "none"]

CallsStart ==
    /\ inflight = [read |-> Idle, save |-> Idle]
    /\ txSaved = NoTx
    /\ getdb = NoGetDB

\* The step of a call that runs from its start to its return: it changes the
\* cache by `calls` (a Set stores `val`).
Returns(r, val) ==
    /\ cout' = r
    /\ cache' = ApplyCalls(cache, r.calls, val)
    /\ providerFailed' = (providerFailed \/ AnyFailed(r.calls))
    /\ UNCHANGED callVars

CacheStart(w, t) ==
    /\ wrapper = w
    /\ ttl = t
    /\ recStore = [k \in Tables \X RecIds |-> Nil]
    /\ fldStore = [f \in FldIds |-> Nil]
    /\ cache = [k \in {} |-> Nil]
    /\ lastWrite = [k \in Tables \X RecIds |-> Nil]
    /\ providerFailed = FALSE
    /\ cout = NoCall
    /\ CallsStart

(***************************************************************************)
(* CachedRecordRepository                                                  *)
(***************************************************************************)
\* A slip that caches whatever the repository returned, nil included.
PopulatesAlways(found) == TRUE

\* FindByTableAndID, line 296: record != nil.
PopulatesRecord(found) == found # Nil

\* FindByTableAndID, lines 277-305.
RecordFindByTableAndID(inTx, t, r) ==
    /\ wrapper = "record"
    /\ \E getFails \in BOOLEAN :
          LET key   == RecordKey("id", t, r)
              get   == Call("Get", key, 0, GetResult(cache, key, getFails))
              found == recStore[<<t, r>>]
              op    == "RecordFindByTableAndID"
              repo  == <<"FindByTableAndID">>
          IN  IF get.res = "hit"
              THEN Returns(Ret(op, inTx, <<t, r>>, <<get>>, <<>>, FALSE, <<>>, cache[key], FALSE),
                           Nil)
              ELSE \/ Returns(Ret(op, inTx, <<t, r>>, <<get>>, repo, TRUE, <<>>, Nil,
                                  ReadError(TRUE, <<get>>)), Nil)
                   \/ IF PopulatesRecord(found)
                      THEN \E setFails \in BOOLEAN :
                              LET set == Call("Set", key, ttl, Outcome(setFails))
                              IN  Returns(Ret(op, inTx, <<t, r>>, <<get>>, repo, FALSE, <<set>>,
                                              found, ReadError(FALSE, <<get, set>>)), found)
                      ELSE Returns(Ret(op, inTx, <<t, r>>, <<get>>, repo, FALSE, <<>>, found,
                                       ReadError(FALSE, <<get>>)), Nil)
    /\ UNCHANGED <<wrapper, ttl, recStore, fldStore, lastWrite>>
    /\ UNCHANGED sdbVars

\* A slip that leaves the cache alone after the wrapped Save.
RecordSaveNoInvalidation(t, r, delFails, patFails) == <<>>

\* A slip that gives up the invalidation when the Delete fails.
RecordSaveStopsOnError(t, r, delFails, patFails) ==
    IF delFails
    THEN <<Call("Delete", <<RecordKey("id", t, r)>>, 0, "fail")>>
    ELSE <<Call("Delete", <<RecordKey("id", t, r)>>, 0, "ok"),
           Call("InvalidatePattern", ListPattern(t), 0, Outcome(patFails))>>

\* Save, lines 313-327: the cache calls after the wrapped Save has succeeded.
RecordSaveInvalidation(t, r, delFails, patFails) ==
    <<Call("Delete", <<RecordKey("id", t, r)>>, 0, Outcome(delFails)),
      Call("InvalidatePattern", ListPattern(t), 0, Outcome(patFails))>>

\* Save, lines 308-330.
RecordSave(t, r, v) ==
    /\ wrapper = "record"
    /\ \/ /\ Returns(WriteRet("RecordSave", <<t, r, v>>, <<"Save">>, TRUE,
                              RecordSaveInvalidation(t, r, FALSE, FALSE)), Nil)
          /\ UNCHANGED <<recStore, lastWrite>>
       \/ /\ recStore' = [recStore EXCEPT ![<<t, r>>] = RecordEntity(t, r, v)]
          /\ lastWrite' = [lastWrite EXCEPT ![<<t, r>>] = RecordEntity(t, r, v)]
          /\ \E delFails, patFails \in BOOLEAN :
                Returns(WriteRet("RecordSave", <<t, r, v>>, <<"Save">>, FALSE,
                                 RecordSaveInvalidation(t, r, delFails, patFails)), Nil)
    /\ UNCHANGED <<wrapper, ttl, fldStore>>
    /\ UNCHANGED sdbVars

\* DeleteByTableAndID, lines 338-352: the cache calls after the wrapped delete.
RecordDeleteInvalidation(t, r, delFails, patFails) ==
    <<Call("Delete", <<RecordKey("id", t, r)>>, 0, Outcome(delFails)),
      Call("InvalidatePattern", ListPattern(t), 0, Outcome(patFails))>>

\* DeleteByTableAndID, lines 333-355.
RecordDeleteByTableAndID(t, r) ==
    /\ wrapper = "record"
    /\ \/ /\ Returns(WriteRet("RecordDeleteByTableAndID", <<t, r>>,
                              <<"DeleteByTableAndID">>, TRUE,
                              RecordDeleteInvalidation(t, r, FALSE, FALSE)), Nil)
          /\ UNCHANGED <<recStore, lastWrite>>
       \/ /\ recStore' = [recStore EXCEPT ![<<t, r>>] = Nil]
          /\ lastWrite' = [lastWrite EXCEPT ![<<t, r>>] = Nil]
          /\ \E delFails, patFails \in BOOLEAN :
                Returns(WriteRet("RecordDeleteByTableAndID", <<t, r>>,
                                 <<"DeleteByTableAndID">>, FALSE,
                                 RecordDeleteInvalidation(t, r, delFails, patFails)), Nil)
    /\ UNCHANGED <<wrapper, ttl, fldStore>>
    /\ UNCHANGED sdbVars

\* List, lines 361-364: shortTTL.
ListTTL(t) == IF t < ShortTTL THEN t ELSE ShortTTL

\* List, lines 358-397.
RecordList(inTx, t, limit, offset) ==
    /\ wrapper = "record"
    /\ \E getFails \in BOOLEAN :
          LET key   == ListKey(t, limit, offset)
              get   == Call("Get", key, 0, GetResult(cache, key, getFails))
              found == RepoList(t, limit, offset)
              args  == <<t, ToString(limit), ToString(offset)>>
          IN  IF get.res = "hit"
              THEN Returns(Ret("RecordList", inTx, args, <<get>>, <<>>, FALSE, <<>>, cache[key],
                               FALSE), Nil)
              ELSE \/ Returns(Ret("RecordList", inTx, args, <<get>>, <<"List">>, TRUE, <<>>,
                                  Nil, ReadError(TRUE, <<get>>)), Nil)
                   \/ \E setFails \in BOOLEAN :
                         LET set == Call("Set", key, ListTTL(ttl), Outcome(setFails))
                         IN  Returns(Ret("RecordList", inTx, args, <<get>>, <<"List">>, FALSE,
                                         <<set>>, found, ReadError(FALSE, <<get, set>>)),
                                     found)
    /\ UNCHANGED <<wrapper, ttl, recStore, fldStore, lastWrite>>
    /\ UNCHANGED sdbVars

(***************************************************************************)
(* CachedFieldRepository                                                   *)
(***************************************************************************)
\* FindByID, line 69: field != nil.
PopulatesField(found) == found # Nil

\* FindByID, lines 51-78.
FieldFindByID(inTx, f) ==
    /\ wrapper = "field"
    /\ \E getFails \in BOOLEAN :
          LET key   == FieldKey("id", f)
              get   == Call("Get", key, 0, GetResult(cache, key, getFails))
              found == fldStore[f]
              op    == "FieldFindByID"
              repo  == <<"FindByID">>
          IN  IF get.res = "hit"
              THEN Returns(Ret(op, inTx, <<f>>, <<get>>, <<>>, FALSE, <<>>, cache[key], FALSE),
                           Nil)
              ELSE \/ Returns(Ret(op, inTx, <<f>>, <<get>>, repo, TRUE, <<>>, Nil,
                                  ReadError(TRUE, <<get>>)), Nil)
                   \/ IF PopulatesField(found)
                      THEN \E setFails \in BOOLEAN :
                              LET set == Call("Set", key, ttl, Outcome(setFails))
                              IN  Returns(Ret(op, inTx, <<f>>, <<get>>, repo, FALSE, <<set>>,
                                              found, ReadError(FALSE, <<get, set>>)), found)
                      ELSE Returns(Ret(op, inTx, <<f>>, <<get>>, repo, FALSE, <<>>, found,
                                       ReadError(FALSE, <<get>>)), Nil)
    /\ UNCHANGED <<wrapper, ttl, recStore, fldStore, lastWrite>>
    /\ UNCHANGED sdbVars

\* FindByTableID, lines 81-127.  Inside a transaction (line 84) the call goes
\* straight to the wrapped repository.
FieldFindByTableID(inTx, t) ==
    /\ wrapper = "field"
    /\ LET key   == FieldKey("table", t)
           found == [fields |-> FieldsOf(t, FieldIdSeq)]
           op    == "FieldFindByTableID"
           repo  == <<"FindByTableID">>
       IN  IF inTx
           THEN \/ Returns(Ret(op, inTx, <<t>>, <<>>, repo, TRUE, <<>>, Nil,
                               ReadError(TRUE, <<>>)), Nil)
                \/ Returns(Ret(op, inTx, <<t>>, <<>>, repo, FALSE, <<>>, found,
                               ReadError(FALSE, <<>>)), Nil)
           ELSE \E getFails \in BOOLEAN :
                   LET get == Call("Get", key, 0, GetResult(cache, key, getFails))
                   IN  IF get.res = "hit"
                       THEN Returns(Ret(op, inTx, <<t>>, <<get>>, <<>>, FALSE, <<>>, cache[key],
                                        FALSE), Nil)
                       ELSE \/ Returns(Ret(op, inTx, <<t>>, <<get>>, repo, TRUE, <<>>, Nil,
                                           ReadError(TRUE, <<get>>)), Nil)
                            \/ \E setFails \in BOOLEAN :
                                  LET set == Call("Set", key, ttl, Outcome(setFails))
                                  IN  Returns(Ret(op, inTx, <<t>>, <<get>>, repo, FALSE,
                                                  <<set>>, found,
                                                  ReadError(FALSE, <<get, set>>)), found)
    /\ UNCHANGED <<wrapper, ttl, recStore, fldStore, lastWrite>>
    /\ UNCHANGED sdbVars

\* invalidateCache, lines 157-176.
FieldInvalidateCache(f, t, delFails, patFails) ==
    <<Call("Delete", <<FieldKey("id", f), FieldKey("table", t)>>, 0, Outcome(delFails)),
      Call("InvalidatePattern", FieldTablePattern(t), 0, Outcome(patFails))>>

\* Save, lines 130-138.  A field stays in the table it was created in.
FieldSave(f, t, v) ==
    /\ wrapper = "field"
    /\ fldStore[f] # Nil => fldStore[f].tableId = t
    /\ \/ /\ Returns(WriteRet("FieldSave", <<f, t, v>>, <<"Save">>, TRUE,
                              FieldInvalidateCache(f, t, FALSE, FALSE)), Nil)
          /\ UNCHANGED fldStore
       \/ /\ fldStore' = [fldStore EXCEPT ![f] = FieldEntity(f, t, v)]
          /\ \E delFails, patFails \in BOOLEAN :
                Returns(WriteRet("FieldSave", <<f, t, v>>, <<"Save">>, FALSE,
                                 FieldInvalidateCache(f, t, delFails, patFails)), Nil)
    /\ UNCHANGED <<wrapper, ttl, recStore, lastWrite>>
    /\ UNCHANGED sdbVars

\* Delete, lines 141-154.  The error of the FindByID that looks the field up is
\* dropped (line 143), and a field that was not found is not invalidated.
FieldDelete(f) ==
    /\ wrapper = "field"
    /\ \E findFails \in BOOLEAN :
          LET field == IF findFails THEN Nil ELSE fldStore[f]
              repo  == <<"FindByID", "Delete">>
          IN  \/ /\ Returns(WriteRet("FieldDelete", <<f>>, repo, TRUE,
                                     IF field # Nil
                                     THEN FieldInvalidateCache(f, field.tableId, FALSE, FALSE)
                                     ELSE <<>>), Nil)
                 /\ UNCHANGED fldStore
              \/ /\ fldStore' = [fldStore EXCEPT ![f] = Nil]
                 /\ IF field # Nil
                    THEN \E delFails, patFails \in BOOLEAN :
                            Returns(WriteRet("FieldDelete", <<f>>, repo, FALSE,
                                             FieldInvalidateCache(f, field.tableId,
                                                                  delFails, patFails)), Nil)
                    ELSE Returns(WriteRet("FieldDelete", <<f>>, repo, FALSE, <<>>), Nil)
    /\ UNCHANGED <<wrapper, ttl, recStore, lastWrite>>
    /\ UNCHANGED sdbVars

(***************************************************************************)
(* The batch writes and the writes that are delegated as they are.         *)
(***************************************************************************)
\* The content of the entities that the specification of the writes saves.
WriteValues == {"a1"}

\* The batches BatchSave is called with: one entity or two.
RecordBatches ==
    {<<RecordEntity(t, r, v)>> : t \in Tables, r \in RecIds, v \in WriteValues}
    \cup {<<RecordEntity(t1, r1, v), RecordEntity(t2, r2, v)>> :
             t1 \in Tables, t2 \in Tables, r1 \in RecIds, r2 \in RecIds, v \in WriteValues}

FieldBatches ==
    {<<FieldEntity(f, t, v)>> : f \in FldIds, t \in Tables, v \in WriteValues}
    \cup {<<FieldEntity(f1, t, v), FieldEntity(f2, t, v)>> :
             f1 \in FldIds, f2 \in FldIds, t \in Tables, v \in WriteValues}

\* The id lists BatchDelete is called with.
RecordIdBatches == {<<r>> : r \in RecIds} \cup {<<r1, r2>> : r1 \in RecIds, r2 \in RecIds}

FieldIdBatches == {<<f>> : f \in FldIds} \cup {<<f1, f2>> : f1 \in FldIds, f2 \in FldIds}

\* The orders in which a `for ... range` over a Go map with the keys S may run.
MapOrders(S) == {o \in [1..Cardinality(S) -> S] : Range(o) = S}

TableIDsOf(es) == {es[i].tableId : i \in DOMAIN es}

\* BatchDelete, line 448: "record:*:*:%s".
RecordIdPattern(r) == <<"record", "*", "*", r>>

RECURSIVE SaveRecords(_, _)
\* repo.BatchSave(ctx, records) on the content `st`.
SaveRecords(st, recs) ==
    IF recs = <<>> THEN st
    ELSE SaveRecords([st EXCEPT ![<<Head(recs).tableId, Head(recs).id>>] = Head(recs)],
                     Tail(recs))

\* repo.BatchDelete(ctx, ids) and repo.Delete(ctx, id) on the content `st`.
DeleteRecords(st, ids) == [k \in DOMAIN st |-> IF k[2] \in Range(ids) THEN Nil ELSE st[k]]

RECURSIVE SaveFields(_, _)
SaveFields(st, fs) ==
    IF fs = <<>> THEN st ELSE SaveFields([st EXCEPT ![Head(fs).id] = Head(fs)], Tail(fs))

\* BatchSave, lines 409-428: a Delete per record, then a pattern per table.
RecordBatchSaveInvalidation(recs, order, delFails, patFails) ==
    [i \in DOMAIN recs |->
        Call("Delete", <<RecordKey("id", recs[i].tableId, recs[i].id)>>, 0, Outcome(delFails))]
    \o [i \in DOMAIN order |->
          Call("InvalidatePattern", ListPattern(order[i]), 0, Outcome(patFails))]

\* BatchSave, lines 404-431.
RecordBatchSave(recs) ==
    /\ wrapper = "record"
    /\ \E order \in MapOrders(TableIDsOf(recs)) :
          \/ /\ Returns(WriteRet("RecordBatchSave", recs, <<"BatchSave">>, TRUE,
                                  RecordBatchSaveInvalidation(recs, order, FALSE, FALSE)), Nil)
             /\ UNCHANGED <<recStore, lastWrite>>
          \/ /\ recStore' = SaveRecords(recStore, recs)
             /\ lastWrite' = SaveRecords(lastWrite, recs)
             /\ \E delFails, patFails \in BOOLEAN :
                   Returns(WriteRet("RecordBatchSave", recs, <<"BatchSave">>, FALSE,
                                    RecordBatchSaveInvalidation(recs, order, delFails,
                                                                patFails)), Nil)
    /\ UNCHANGED <<wrapper, ttl, fldStore>>
    /\ UNCHANGED sdbVars

\* BatchDelete, lines 445-453: a pattern per id.
RecordBatchDeleteInvalidation(ids, patFails) ==
    [i \in DOMAIN ids |->
        Call("InvalidatePattern", RecordIdPattern(ids[i]), 0, Outcome(patFails))]

\* BatchDelete, lines 433-456.
RecordBatchDelete(ids) ==
    /\ wrapper = "record"
    /\ \/ /\ Returns(WriteRet("RecordBatchDelete", ids, <<"BatchDelete">>, TRUE,
                              RecordBatchDeleteInvalidation(ids, FALSE)), Nil)
          /\ UNCHANGED <<recStore, lastWrite>>
       \/ /\ recStore' = DeleteRecords(recStore, ids)
          /\ lastWrite' = DeleteRecords(lastWrite, ids)
          /\ \E patFails \in BOOLEAN :
                Returns(WriteRet("RecordBatchDelete", ids, <<"BatchDelete">>, FALSE,
                                 RecordBatchDeleteInvalidation(ids, patFails)), Nil)
    /\ UNCHANGED <<wrapper, ttl, fldStore>>
    /\ UNCHANGED sdbVars

\* Delete, lines 470-472: delegated as it is.
RecordDelete(r) ==
    /\ wrapper = "record"
    /\ \/ /\ Returns(WriteRet("RecordDelete", <<r>>, <<"Delete">>, TRUE, <<>>), Nil)
          /\ UNCHANGED <<recStore, lastWrite>>
       \/ /\ recStore' = DeleteRecords(recStore, <<r>>)
          /\ lastWrite' = DeleteRecords(lastWrite, <<r>>)
          /\ Returns(WriteRet("RecordDelete", <<r>>, <<"Delete">>, FALSE, <<>>), Nil)
    /\ UNCHANGED <<wrapper, ttl, fldStore>>
    /\ UNCHANGED sdbVars

\* BatchSave, lines 206-213: a Delete of the table key per table.
FieldBatchSaveInvalidation(order, delFails) ==
    [i \in DOMAIN order |->
        Call("Delete", <<FieldKey("table", order[i])>>, 0, Outcome(delFails))]

\* BatchSave, lines 195-216.  A field stays in the table it was created in.
FieldBatchSave(fs) ==
    /\ wrapper = "field"
    /\ \A i \in DOMAIN fs :
          fldStore[fs[i].id] # Nil => fldStore[fs[i].id].tableId = fs[i].tableId
    /\ \E order \in MapOrders(TableIDsOf(fs)) :
          \/ /\ Returns(WriteRet("FieldBatchSave", fs, <<"BatchSave">>, TRUE,
                                  FieldBatchSaveInvalidation(order, FALSE)), Nil)
             /\ UNCHANGED fldStore
          \/ /\ fldStore' = SaveFields(fldStore, fs)
             /\ \E delFails \in BOOLEAN :
                   Returns(WriteRet("FieldBatchSave", fs, <<"BatchSave">>, FALSE,
                                    FieldBatchSaveInvalidation(order, delFails)), Nil)
    /\ UNCHANGED <<wrapper, ttl, recStore, lastWrite>>
    /\ UNCHANGED sdbVars

\* BatchDelete, lines 218-220: delegated as it is.
FieldBatchDelete(ids) ==
    /\ wrapper = "field"
    /\ \/ /\ Returns(WriteRet("FieldBatchDelete", ids, <<"BatchDelete">>, TRUE, <<>>), Nil)
          /\ UNCHANGED fldStore
       \/ /\ fldStore' = [f \in DOMAIN fldStore |->
                             IF f \in Range(ids) THEN Nil ELSE fldStore[f]]
          /\ Returns(WriteRet("FieldBatchDelete", ids, <<"BatchDelete">>, FALSE, <<>>), Nil)
    /\ UNCHANGED <<wrapper, ttl, recStore, lastWrite>>
    /\ UNCHANGED sdbVars

\* UpdateOrder, lines 234-236: delegated as it is.  The order is part of the
\* content of the field; v is the content with the new order.
FieldUpdateOrder(f, v) ==
    /\ wrapper = "field"
    /\ \/ /\ Returns(WriteRet("FieldUpdateOrder", <<f, v>>, <<"UpdateOrder">>, TRUE, <<>>), Nil)
          /\ UNCHANGED fldStore
       \/ /\ fldStore' = IF fldStore[f] = Nil THEN fldStore
                          ELSE [fldStore EXCEPT ![f].val = v]
          /\ Returns(WriteRet("FieldUpdateOrder", <<f, v>>, <<"UpdateOrder">>, FALSE, <<>>), Nil)
    /\ UNCHANGED <<wrapper, ttl, recStore, lastWrite>>
    /\ UNCHANGED sdbVars

\* The provider drops an entry whose ttl has run out.
Expire(k) ==
    /\ k \in DOMAIN cache
    /\ cache' = [x \in DOMAIN cache \ {k} |-> cache[x]]
    /\ cout' = NoCall
    /\ UNCHANGED <<wrapper, ttl, recStore, fldStore, lastWrite, providerFailed>>
    /\ UNCHANGED callVars
    /\ UNCHANGED sdbVars

(***************************************************************************)
(* The specification of the ShareDBService.                                *)
(***************************************************************************)
SdbInit ==
    /\ connected = FALSE
    /\ tableId = NoTable
    /\ subscribedDocs = [r \in Records |-> NoDoc]
    /\ eventHandlers = [r \in Records |-> {}]
    /\ docs = <<>>
    /\ pending = <<>>
    /\ active = [r \in Records |-> {}]
    /\ out = NoOut

Init == SdbInit /\ CacheStart("record", NewCachedRecordRepository(0))

Next ==
    \/ Connect
    \/ Disconnect
    \/ \E t \in TableIds : SetTableId(t)
    \/ \E r \in Records, cb \in Listeners : SubscribeRecordThrows(r, cb)
    \/ \E r \in Records, cb \in Listeners : SubscribeRecordStart(r, cb)
    \/ \E i \in 1..MaxSubscribes : SubscribeRecordResume(i)
    \/ \E i \in 1..MaxSubscribes : SubscribeRecordRejects(i)
    \/ \E h \in 1..MaxSubscribes : DocLoad(h)
    \/ \E h \in 1..MaxSubscribes : DocOp(h)
    \/ \E h \in 1..MaxSubscribes : DocError(h)
    \/ \E r \in Records : UnsubscribeRecord(r)

Spec == Init /\ [][Next]_vars

\* The calls that build and tear down the registry.
TeardownNext ==
    \/ Connect
    \/ Disconnect
    \/ \E t \in TableIds : SetTableId(t)
    \/ \E r \in Records, cb \in Listeners : SubscribeRecordThrows(r, cb)
    \/ \E r \in Records, cb \in Listeners : SubscribeRecordStart(r, cb)
    \/ \E i \in 1..MaxSubscribes : SubscribeRecordResume(i)
    \/ \E i \in 1..MaxSubscribes : SubscribeRecordRejects(i)
    \/ \E r \in Records : UnsubscribeRecord(r)
    \/ \E rs \in UnsubscribeLists : UnsubscribeRecords(rs)
    \/ UnsubscribeAll
    \/ Cleanup

TeardownSpec == Init /\ [][TeardownNext]_vars

\* The same calls, and the events of the handles.
CleanupNext ==
    \/ TeardownNext
    \/ \E h \in 1..MaxSubscribes : DocLoad(h)
    \/ \E h \in 1..MaxSubscribes : DocOp(h)
    \/ \E h \in 1..MaxSubscribes : DocError(h)

CleanupSpec == Init /\ [][CleanupNext]_vars

\* submitFieldUpdate, on the registry that subscribeRecord and unsubscribeRecord build.
SubmitNext ==
    \/ Connect
    \/ \E t \in TableIds : SetTableId(t)
    \/ \E r \in Records, cb \in Listeners : SubscribeRecordStart(r, cb)
    \/ \E i \in 1..MaxSubscribes : SubscribeRecordResume(i)
    \/ \E r \in Records : UnsubscribeRecord(r)
    \/ \E r \in Records, f \in FieldIds, nv \in NewValues, ov \in OldValues :
          SubmitFieldUpdate(r, f, nv, ov)

SubmitSpec == Init /\ [][SubmitNext]_vars

\* subscribeRecords on a table of two records.
BatchInit ==
    /\ connected = FALSE
    /\ tableId = NoTable
    /\ subscribedDocs = [r \in BatchRecords |-> NoDoc]
    /\ eventHandlers = [r \in BatchRecords |-> {}]
    /\ docs = <<>>
    /\ pending = <<>>
    /\ active = [r \in BatchRecords |-> {}]
    /\ out = NoOut
    /\ CacheStart("record", NewCachedRecordRepository(0))

BatchNext ==
    \/ Connect
    \/ Disconnect
    \/ \E t \in TableIds : SetTableId(t)
    \/ \E ids \in BatchLists, cb \in Listeners : SubscribeRecordsThrows(ids, cb)
    \/ \E ids \in BatchLists, cb \in Listeners : SubscribeRecordsStart(ids, cb)
    \/ \E i \in 1..MaxSubscribes : SubscribeRecordResume(i)
    \/ \E i \in 1..MaxSubscribes : SubscribeRecordRejects(i)
    \/ \E r \in BatchRecords : UnsubscribeRecord(r)

BatchSpec == BatchInit /\ [][BatchNext]_vars

(***************************************************************************)
(* The specification of the cached repositories.                           *)
(***************************************************************************)
CacheInit ==
    /\ SdbInit
    /\ \E c \in ConfiguredTTLs :
          \/ CacheStart("field", NewCachedFieldRepository(c))
          \/ CacheStart("record", NewCachedRecordRepository(c))

CacheNext ==
    \/ \E inTx \in BOOLEAN, t \in Tables, r \in RecIds : RecordFindByTableAndID(inTx, t, r)
    \/ \E t \in Tables, r \in RecIds, v \in Values : RecordSave(t, r, v)
    \/ \E t \in Tables, r \in RecIds : RecordDeleteByTableAndID(t, r)
    \/ \E inTx \in BOOLEAN, t \in Tables, l \in Limits, o \in Offsets : RecordList(inTx, t, l, o)
    \/ \E inTx \in BOOLEAN, f \in FldIds : FieldFindByID(inTx, f)
    \/ \E inTx \in BOOLEAN, t \in Tables : FieldFindByTableID(inTx, t)
    \/ \E f \in FldIds, t \in Tables, v \in Values : FieldSave(f, t, v)
    \/ \E f \in FldIds : FieldDelete(f)
    \/ \E k \in DOMAIN cache : Expire(k)

CacheSpec == CacheInit /\ [][CacheNext]_vars

(***************************************************************************)
(* The specification of the writes of the cached repositories: every       *)
(* write, and the reads that fill the cache, on a wrapper with the default *)
(* ttl and outside a transaction.                                          *)
(***************************************************************************)
WriteInit ==
    /\ SdbInit
    /\ \/ CacheStart("field", NewCachedFieldRepository(0))
       \/ CacheStart("record", NewCachedRecordRepository(0))

WriteNext ==
    \/ \E t \in Tables, r \in RecIds : RecordFindByTableAndID(FALSE, t, r)
    \/ \E t \in Tables, l \in Limits, o \in Offsets : RecordList(FALSE, t, l, o)
    \/ \E t \in Tables, r \in RecIds, v \in WriteValues : RecordSave(t, r, v)
    \/ \E t \in Tables, r \in RecIds : RecordDeleteByTableAndID(t, r)
    \/ \E r \in RecIds : RecordDelete(r)
    \/ \E recs \in RecordBatches : RecordBatchSave(recs)
    \/ \E ids \in RecordIdBatches : RecordBatchDelete(ids)
    \/ \E f \in FldIds : FieldFindByID(FALSE, f)
    \/ \E t \in Tables : FieldFindByTableID(FALSE, t)
    \/ \E f \in FldIds, t \in Tables, v \in WriteValues : FieldSave(f, t, v)
    \/ \E f \in FldIds : FieldDelete(f)
    \/ \E fs \in FieldBatches : FieldBatchSave(fs)
    \/ \E ids \in FieldIdBatches : FieldBatchDelete(ids)
    \/ \E f \in FldIds, v \in WriteValues : FieldUpdateOrder(f, v)

WriteSpec == WriteInit /\ [][WriteNext]_vars

(***************************************************************************)
(* The specification of the record writes that are given the table, on     *)
(* tables of one and of two records.                                    *)
(***************************************************************************)
\* The records the tables may hold: two in t1, one in t2.
FrameRecords == {<<"t1", "r1">>, <<"t1", "r2">>, <<"t2", "r1">>}

\* The batches BatchSave is called with: two records, of one table or of two.
FrameBatches ==
    {<<RecordEntity("t1", "r1", v), RecordEntity(k[1], k[2], v)>> :
        k \in FrameRecords \ {<<"t1", "r1">>}, v \in WriteValues}

FrameInit ==
    /\ SdbInit
    /\ wrapper = "record"
    /\ ttl = NewCachedRecordRepository(0)
    /\ recStore = [k \in FrameRecords |-> Nil]
    /\ fldStore = [f \in FldIds |-> Nil]
    /\ cache = [k \in {} |-> Nil]
    /\ lastWrite = [k \in FrameRecords |-> Nil]
    /\ providerFailed = FALSE
    /\ cout = NoCall
    /\ CallsStart

FrameNext ==
    \/ \E k \in FrameRecords : RecordFindByTableAndID(FALSE, k[1], k[2])
    \/ \E t \in Tables, l \in Limits, o \in Offsets : RecordList(FALSE, t, l, o)
    \/ \E k \in FrameRecords, v \in WriteValues : RecordSave(k[1], k[2], v)
    \/ \E k \in FrameRecords : RecordDeleteByTableAndID(k[1], k[2])
    \/ \E recs \in FrameBatches : RecordBatchSave(recs)

FrameSpec == FrameInit /\ [][FrameNext]_vars

(***************************************************************************)
(* A FindByTableAndID and a Save of CachedRecordRepository under way at    *)
(* the same time (two requests, two goroutines).  Each call is a sequence  *)
(* of steps, one per call it makes to the provider or to the wrapped       *)
(* repository, and the steps of the two calls interleave.                  *)
(***************************************************************************)
RaceUnchanged == UNCHANGED <<wrapper, ttl, fldStore, txSaved, getdb>> /\ UNCHANGED sdbVars

\* FindByTableAndID is entered, lines 276-277.
FindCall(t, r) ==
    /\ wrapper = "record"
    /\ inflight.read = Idle
    /\ inflight' = [inflight EXCEPT !.read = [pc |-> "get", t |-> t, r |-> r]]
    /\ cout' = NoCall
    /\ UNCHANGED <<recStore, cache, lastWrite, providerFailed>>
    /\ RaceUnchanged

\* FindByTableAndID, lines 280-287: the Get, and the return on a hit.
FindGet ==
    /\ inflight.read.pc = "get"
    /\ \E getFails \in BOOLEAN :
          LET c   == inflight.read
              key == RecordKey("id", c.t, c.r)
              get == Call("Get", key, 0, GetResult(cache, key, getFails))
          IN  IF get.res = "hit"
              THEN /\ inflight' = [inflight EXCEPT !.read = Idle]
                   /\ cout' = Ret("RecordFindByTableAndID", FALSE, <<c.t, c.r>>, <<get>>, <<>>,
                                  FALSE, <<>>, cache[key], FALSE)
                   /\ UNCHANGED providerFailed
              ELSE /\ inflight' = [inflight EXCEPT !.read =
                                      [pc |-> "repo", t |-> c.t, r |-> c.r, get |-> get]]
                   /\ cout' = NoCall
                   /\ providerFailed' = (providerFailed \/ AnyFailed(<<get>>))
    /\ UNCHANGED <<recStore, cache, lastWrite>>
    /\ RaceUnchanged

\* FindByTableAndID, lines 290-293 and 296: the read of the wrapped repository,
\* the return of its error, and the return of a nil record.
FindRepo ==
    /\ inflight.read.pc = "repo"
    /\ LET c     == inflight.read
           found == recStore[<<c.t, c.r>>]
           op    == "RecordFindByTableAndID"
           repo  == <<"FindByTableAndID">>
       IN  \/ /\ inflight' = [inflight EXCEPT !.read = Idle]
              /\ cout' = Ret(op, FALSE, <<c.t, c.r>>, <<c.get>>, repo, TRUE, <<>>, Nil,
                             ReadError(TRUE, <<c.get>>))
           \/ IF PopulatesRecord(found)
              THEN /\ inflight' = [inflight EXCEPT !.read =
                                      [pc |-> "set", t |-> c.t, r |-> c.r, get |-> c.get,
                                       found |-> found]]
                   /\ cout' = NoCall
              ELSE /\ inflight' = [inflight EXCEPT !.read = Idle]
                   /\ cout' = Ret(op, FALSE, <<c.t, c.r>>, <<c.get>>, repo, FALSE, <<>>, found,
                                  ReadError(FALSE, <<c.get>>))
    /\ UNCHANGED <<recStore, cache, lastWrite, providerFailed>>
    /\ RaceUnchanged

\* FindByTableAndID, lines 297-304: the Set of the record read at line 290, and
\* the return.
FindSet ==
    /\ inflight.read.pc = "set"
    /\ \E setFails \in BOOLEAN :
          LET c   == inflight.read
              key == RecordKey("id", c.t, c.r)
              set == Call("Set", key, ttl, Outcome(setFails))
          IN  /\ cache' = ApplyCalls(cache, <<set>>, c.found)
              /\ cout' = Ret("RecordFindByTableAndID", FALSE, <<c.t, c.r>>, <<c.get>>,
                             <<"FindByTableAndID">>, FALSE, <<set>>, c.found,
                             ReadError(FALSE, <<c.get, set>>))
              /\ providerFailed' = (providerFailed \/ AnyFailed(<<set>>))
    /\ inflight' = [inflight EXCEPT !.read = Idle]
    /\ UNCHANGED <<recStore, lastWrite>>
    /\ RaceUnchanged

\* Save is entered, line 308.
SaveCall(t, r, v) ==
    /\ wrapper = "record"
    /\ inflight.save = Idle
    /\ inflight' = [inflight EXCEPT !.save = [pc |-> "repo", t |-> t, r |-> r, v |-> v]]
    /\ cout' = NoCall
    /\ UNCHANGED <<recStore, cache, lastWrite, providerFailed>>
    /\ RaceUnchanged

\* Save, lines 309-311: the wrapped Save, and the return of its error.
SaveRepo ==
    /\ inflight.save.pc = "repo"
    /\ LET c == inflight.save
       IN  \/ /\ inflight' = [inflight EXCEPT !.save = Idle]
              /\ cout' = WriteRet("RecordSave", <<c.t, c.r, c.v>>, <<"Save">>, TRUE, <<>>)
              /\ UNCHANGED recStore
           \/ /\ recStore' = [recStore EXCEPT ![<<c.t, c.r>>] = RecordEntity(c.t, c.r, c.v)]
              /\ inflight' = [inflight EXCEPT !.save =
                                 [pc |-> "delete", t |-> c.t, r |-> c.r, v |-> c.v]]
              /\ cout' = NoCall
    /\ UNCHANGED <<cache, lastWrite, providerFailed>>
    /\ RaceUnchanged

\* Save, lines 314-319: the Delete of the record's key.
SaveDelete ==
    /\ inflight.save.pc = "delete"
    /\ \E delFails \in BOOLEAN :
          LET c   == inflight.save
              del == RecordSaveInvalidation(c.t, c.r, delFails, FALSE)[1]
          IN  /\ cache' = ApplyCalls(cache, <<del>>, Nil)
              /\ inflight' = [inflight EXCEPT !.save =
                                 [pc |-> "pattern", t |-> c.t, r |-> c.r, v |-> c.v,
                                  del |-> del]]
              /\ providerFailed' = (providerFailed \/ AnyFailed(<<del>>))
    /\ cout' = NoCall
    /\ UNCHANGED <<recStore, lastWrite>>
    /\ RaceUnchanged

\* Save, lines 322-329: the InvalidatePattern of the table's lists, and the return.
SavePattern ==
    /\ inflight.save.pc = "pattern"
    /\ \E patFails \in BOOLEAN :
          LET c   == inflight.save
              pat == RecordSaveInvalidation(c.t, c.r, FALSE, patFails)[2]
          IN  /\ cache' = ApplyCalls(cache, <<pat>>, Nil)
              /\ cout' = WriteRet("RecordSave", <<c.t, c.r, c.v>>, <<"Save">>, FALSE,
                                  <<c.del, pat>>)
              /\ providerFailed' = (providerFailed \/ AnyFailed(<<pat>>))
              /\ lastWrite' = [lastWrite EXCEPT ![<<c.t, c.r>>] = RecordEntity(c.t, c.r, c.v)]
    /\ inflight' = [inflight EXCEPT !.save = Idle]
    /\ UNCHANGED recStore
    /\ RaceUnchanged

RaceNext ==
    \/ \E t \in Tables, r \in RecIds : FindCall(t, r)
    \/ FindGet
    \/ FindRepo
    \/ FindSet
    \/ \E t \in Tables, r \in RecIds, v \in Values : SaveCall(t, r, v)
    \/ SaveRepo
    \/ SaveDelete
    \/ SavePattern

RaceSpec == Init /\ [][RaceNext]_vars

(***************************************************************************)
(* The wrapper called inside and outside a write transaction of the store. *)
(* One transaction is open at a time; while it is open the calls carry the *)
(* transaction mark and the store is the transaction's view of it.         *)
(***************************************************************************)
InTransaction == txSaved.open

TxUnchanged ==
    /\ cout' = NoCall
    /\ UNCHANGED <<wrapper, ttl, fldStore, cache, providerFailed, inflight, getdb>>
    /\ UNCHANGED sdbVars

\* The store layer opens a write transaction.
TxBegin ==
    /\ wrapper = "record"
    /\ ~InTransaction
    /\ txSaved' = [open |-> TRUE, recStore |-> recStore, lastWrite |-> lastWrite]
    /\ UNCHANGED <<recStore, lastWrite>>
    /\ TxUnchanged

\* The transaction commits: what it wrote stays.
TxCommit ==
    /\ InTransaction
    /\ txSaved' = NoTx
    /\ UNCHANGED <<recStore, lastWrite>>
    /\ TxUnchanged

\* The transaction rolls back: the store is what it was at its beginning.
TxRollback ==
    /\ InTransaction
    /\ recStore' = txSaved.recStore
    /\ lastWrite' = txSaved.lastWrite
    /\ txSaved' = NoTx
    /\ TxUnchanged

TxNext ==
    \/ TxBegin
    \/ TxCommit
    \/ TxRollback
    \/ \E t \in Tables, r \in RecIds : RecordFindByTableAndID(InTransaction, t, r)
    \/ \E t \in Tables, l \in Limits, o \in Offsets : RecordList(InTransaction, t, l, o)
    \/ \E t \in Tables, r \in RecIds, v \in WriteValues : RecordSave(t, r, v)
    \/ \E t \in Tables, r \in RecIds : RecordDeleteByTableAndID(t, r)

TxSpec == Init /\ [][TxNext]_vars

(***************************************************************************)
(* GetDB of CachedRecordRepository.  A chain is a repository that is no    *)
(* cache wrapper (`inner`) with `depth` cache wrappers built around it,    *)
(* wrapper 1 around the repository and wrapper k + 1 around wrapper k.     *)
(* GetDB is called on the outermost wrapper; `at` is the wrapper its       *)
(* recursion has reached.                                                  *)
(***************************************************************************)
MaxDepth == 5

DBs == {"db1", "db2"}

\* The nil *gorm.DB.
NilDB == "nil"

\* A *RecordRepositoryDynamic on the connection db.
RecordRepositoryDynamic(db) == [type |-> "RecordRepositoryDynamic", hasGetDB |-> TRUE, db |-> db]

\* A RecordRepository of another type, with a GetDB method (on db) or without.
OtherRepository(has, db) == [type |-> "other", hasGetDB |-> has, db |-> db]

InnerRepositories ==
    {RecordRepositoryDynamic(db) : db \in DBs}
        \cup {OtherRepository(TRUE, db) : db \in DBs}
        \cup {OtherRepository(FALSE, NilDB)}

GetDBUnchanged ==
    /\ cout' = NoCall
    /\ UNCHANGED <<wrapper, ttl, recStore, fldStore, cache, lastWrite, providerFailed,
                   inflight, txSaved>>
    /\ UNCHANGED sdbVars

\* NewCachedRecordRepository(repo, ...), lines 255-269, around a repository
\* that is no cache wrapper.
NewChain(inner) ==
    /\ getdb = NoGetDB
    /\ getdb' = [pc |-> "built", inner |-> inner, depth |-> 1, at |-> 0, result |-> NilDB]
    /\ GetDBUnchanged

\* NewCachedRecordRepository(repo, ...), lines 255-269, around the outermost
\* wrapper.
WrapAgain ==
    /\ getdb.pc \in {"built", "done"}
    /\ getdb.depth < MaxDepth
    /\ getdb' = [getdb EXCEPT !.pc = "built", !.depth = @ + 1, !.at = 0, !.result = NilDB]
    /\ GetDBUnchanged

\* GetDB is called on the outermost wrapper, line 488.
GetDBCall ==
    /\ getdb.pc \in {"built", "done"}
    /\ getdb' = [getdb EXCEPT !.pc = "run", !.at = getdb.depth, !.result = NilDB]
    /\ GetDBUnchanged

\* What GetDB returns on the wrapper around the repository `inner`: line 491 when
\* the type assertion of line 490 holds, line 498 otherwise.
GetDBOf(inner) == IF inner.type = "RecordRepositoryDynamic" THEN inner.db ELSE NilDB

\* One level of GetDB, lines 489-498: on a wrapper around a wrapper, the
\* recursive call of line 495, whose result is returned as it is.
GetDBStep ==
    /\ getdb.pc = "run"
    /\ IF getdb.at > 1
       THEN getdb' = [getdb EXCEPT !.at = @ - 1]
       ELSE getdb' = [getdb EXCEPT !.pc = "done", !.result = GetDBOf(getdb.inner)]
    /\ GetDBUnchanged

GetDBNext ==
    \/ \E inner \in InnerRepositories : NewChain(inner)
    \/ WrapAgain
    \/ GetDBCall
    \/ GetDBStep

GetDBSpec == Init /\ [][GetDBNext]_vars

\* A call that has started goes on: its goroutine is scheduled.
GetDBFairSpec == GetDBSpec /\ WF_vars(GetDBStep)

(***************************************************************************)
(* The claims about the ShareDBService.                                    *)
(***************************************************************************)
LiveHandlesOf(r) == {h \in 1..Len(docs) : Live(h) /\ docs[h].rec = r}

\* C1: in every reachable state, whatever the interleaving of subscribeRecord and
\* unsubscribeRecord calls, at most one document handle that was acquired and not
\* destroyed exists for each recordId.
C1_AtMostOneLiveHandle == \A r \in Records : Cardinality(LiveHandlesOf(r)) <= 1

\* C2: once subscribeRecord(r, l1) and subscribeRecord(r, l2) have both completed with
\* no unsubscribeRecord(r) since the first of them started, every op event and every
\* error event a document of r emits is delivered to both l1 and l2.
C2_BothListenersGetEveryEvent ==
    out.kind \in {"op", "error"} =>
        \A l1, l2 \in Listeners :
            (l1 # l2 /\ {l1, l2} \subseteq active[out.rec]) => {l1, l2} \subseteq Range(out.to)

\* C3: a subscribeRecord(r, cb) that resolves on a document that carries data has
\* invoked cb with the snapshot exactly once: not zero times, and not twice (once by
\* its load adapter and once by the delivery after doc.subscribe()).
C3_SnapshotExactlyOnce == (out.kind = "subscribed" /\ out.hadData) => out.snapshots = 1

Submitted == out.kind = "submitFieldUpdate" /\ out.result # "not-subscribed"

\* C4 as stated: the operation list submitFieldUpdate builds is empty if and only if
\* newValue is undefined or null and oldValue is undefined or null; otherwise it holds
\* exactly one entry.
C4_EmptyIffBothAbsent ==
    Submitted =>
        /\ (out.op = <<>>) <=> (out.newValue \in {Undefined, Null} /\ out.oldValue \in {Undefined, Null})
        /\ Len(out.op) <= 1

\* C4 as amended: the operation list submitFieldUpdate builds is empty if and only if
\* newValue is undefined or null and oldValue is undefined (a null oldValue is a known
\* old value); in every other combination it holds exactly one entry.
C4_EmptyIffNewAbsentOldUndefined ==
    Submitted =>
        /\ (out.op = <<>>) <=> (out.newValue \in {Undefined, Null} /\ out.oldValue = Undefined)
        /\ Len(out.op) <= 1

\* C4's case: a null newValue with a null oldValue, which builds one entry.
C4_Witness ==
    /\ Submitted
    /\ out.newValue = Null
    /\ out.oldValue = Null
    /\ Len(out.op) = 1

\* C5: the entry submitFieldUpdate builds has the path <<"data", fieldId>>, and its
\* keys are fixed by the case, an oldValue being known when it is not undefined:
\* newValue absent, oldValue known: only od = oldValue; newValue present, oldValue
\* known: oi = newValue and od = oldValue; newValue present, oldValue unknown: only
\* oi = newValue.
C5_EntryShape ==
    (Submitted /\ out.op # <<>>) =>
        LET e        == out.op[1]
            nvAbsent == out.newValue \in {Undefined, Null}
            ovKnown  == out.oldValue # Undefined
        IN  /\ e.p = <<"data", out.field>>
            /\ (nvAbsent /\ ovKnown) =>
                  (DOMAIN e = {"p", "od"} /\ e.od = out.oldValue)
            /\ (~nvAbsent /\ ovKnown) =>
                  (DOMAIN e = {"p", "oi", "od"} /\ e.oi = out.newValue /\ e.od = out.oldValue)
            /\ (~nvAbsent /\ ~ovKnown) =>
                  (DOMAIN e = {"p", "oi"} /\ e.oi = out.newValue)

\* C5's case: a present newValue replaces a known oldValue.
C5_Witness ==
    /\ Submitted
    /\ out.newValue = "v1"
    /\ out.oldValue = "v2"
    /\ out.op # <<>>

\* C6: one submitFieldUpdate calls doc.submitOp at most once, never with an empty
\* operation list, and not at all when newValue and oldValue are both undefined.
C6_NeverSubmitsEmpty ==
    out.kind = "submitFieldUpdate" =>
        /\ Len(out.submitted) <= 1
        /\ \A i \in DOMAIN out.submitted : out.submitted[i] # <<>>
        /\ (out.newValue = Undefined /\ out.oldValue = Undefined) => out.submitted = <<>>

\* C6's case: submitFieldUpdate on a subscribed record with both values undefined
\* returns without a call of doc.submitOp.
C6_Witness ==
    /\ Submitted
    /\ out.newValue = Undefined
    /\ out.oldValue = Undefined
    /\ out.result = "ok"
    /\ out.submitted = <<>>

(***************************************************************************)
(* Claims about the cached repositories.  `cout` is what the last wrapper  *)
(* call did: the cache calls it issued in order, the wrapped-repository    *)
(* calls it made, its result and whether it returned an error.             *)
(***************************************************************************)
PointReads == {"FieldFindByID", "RecordFindByTableAndID"}

CachedReads == PointReads \cup {"FieldFindByTableID", "RecordList"}

Saves == {"FieldSave", "RecordSave"}

\* The point-read key of the entity a point read or a Save is about.
PointKeyOf(o) ==
    IF o.op \in {"FieldFindByID", "FieldSave"}
    THEN FieldKey("id", o.args[1])
    ELSE RecordKey("id", o.args[1], o.args[2])

\* The invalidation pattern of the table a Save is about.
TablePatternOf(o) ==
    IF o.op = "FieldSave" THEN FieldTablePattern(o.args[2]) ELSE ListPattern(o.args[1])

CallsOf(o, fn) == {i \in DOMAIN o.calls : o.calls[i].fn = fn}

\* C7: a point read (field FindByID, record FindByTableAndID) starts with one
\* cache Get of the point key; when that Get succeeds the wrapped repository is
\* not called and nothing is set; when it does not succeed the wrapped
\* repository is called exactly once, and one Set of the point key with the
\* configured TTL is issued if and only if that call returned a non-absent
\* entity without error.
C7_PointReadCacheAside ==
    cout.op \in PointReads =>
        /\ Len(cout.calls) >= 1
        /\ CallsOf(cout, "Get") = {1}
        /\ cout.calls[1].arg = PointKeyOf(cout)
        /\ cout.calls[1].res = "hit" =>
              /\ cout.repo = <<>>
              /\ CallsOf(cout, "Set") = {}
        /\ cout.calls[1].res # "hit" =>
              /\ Len(cout.repo) = 1
              /\ (~cout.err /\ cout.result # Nil) <=>
                    /\ CallsOf(cout, "Set") = {2}
                    /\ Len(cout.calls) = 2
                    /\ cout.calls[2].arg = PointKeyOf(cout)
                    /\ cout.calls[2].ttl = ttl
              /\ (cout.err \/ cout.result = Nil) <=> CallsOf(cout, "Set") = {}

\* C7's case: a record point read missed the cache, called the wrapped
\* repository once, found the record and set it with the configured TTL.
C7_Witness ==
    /\ cout.op = "RecordFindByTableAndID"
    /\ cout.calls[1].res = "miss"
    /\ cout.repo = <<"FindByTableAndID">>
    /\ cout.result # Nil
    /\ Len(cout.calls) = 2
    /\ cout.calls[2].fn = "Set"
    /\ cout.calls[2].ttl = ttl

\* C8: a cached read (FindByID, FindByTableAndID, FindByTableID, List) whose
\* context is inside a write transaction issues no cache Get and no cache Set,
\* and calls the wrapped repository.
C8_TransactionReadsBypassCache ==
    (cout.op \in CachedReads /\ cout.inTx) =>
        /\ CallsOf(cout, "Get") = {}
        /\ CallsOf(cout, "Set") = {}
        /\ Len(cout.repo) = 1

\* C9: when the wrapped repository's Save has succeeded, the wrapper's Save has
\* issued, by the time it returns, a Delete that covers the point key of the
\* saved entity and then an InvalidatePattern of its table's pattern, whatever
\* the Delete returned.
C9_SaveInvalidates ==
    (cout.op \in Saves /\ ~cout.err) =>
        /\ Len(cout.calls) = 2
        /\ cout.calls[1].fn = "Delete"
        /\ PointKeyOf(cout) \in Range(cout.calls[1].arg)
        /\ cout.calls[2].fn = "InvalidatePattern"
        /\ cout.calls[2].arg = TablePatternOf(cout)

\* C9's case: a record Save whose point-key Delete returned an error and that
\* still attempted the pattern invalidation.
C9_Witness ==
    /\ cout.op = "RecordSave"
    /\ ~cout.err
    /\ Len(cout.calls) = 2
    /\ cout.calls[1].fn = "Delete"
    /\ cout.calls[1].res = "fail"
    /\ cout.calls[2].fn = "InvalidatePattern"

\* C10: with a cache provider that has not failed, a record point read that
\* returns after a Save of that record has returned yields the value that Save
\* wrote.
C10_ReadAfterWrite ==
    (/\ cout.op = "RecordFindByTableAndID"
     /\ ~providerFailed
     /\ ~cout.err
     /\ lastWrite[<<cout.args[1], cout.args[2]>>] # Nil) =>
        cout.result = lastWrite[<<cout.args[1], cout.args[2]>>]

\* C10's case: with a provider that has not failed, a point read of a saved
\* record is served from the cache and returns the value last written.
C10_Witness ==
    /\ cout.op = "RecordFindByTableAndID"
    /\ ~providerFailed
    /\ cout.calls[1].res = "hit"
    /\ lastWrite[<<cout.args[1], cout.args[2]>>] # Nil
    /\ cout.result = lastWrite[<<cout.args[1], cout.args[2]>>]
    /\ cout.result.val = "a2"

Writes ==
    {"FieldSave", "FieldDelete", "FieldBatchSave", "FieldBatchDelete",
     "RecordSave", "RecordDeleteByTableAndID", "RecordDelete",
     "RecordBatchSave", "RecordBatchDelete"}

Invalidations == {"Delete", "InvalidatePattern"}

\* C11: in every write of a wrapper (Save, Delete, DeleteByTableAndID,
\* BatchSave, BatchDelete) no cache Delete and no InvalidatePattern is issued
\* before a call of the wrapped repository, and when the wrapped mutation
\* returns an error the write returns an error, has issued no cache call and
\* leaves the cache as it was.
C11_MutationBeforeInvalidation ==
    [][cout'.op \in Writes =>
          /\ \A i, j \in DOMAIN cout'.trace :
                (cout'.trace[i] \in Invalidations /\ cout'.trace[j] = "repo") => j < i
          /\ cout'.repoErr => (cout'.err /\ cout'.calls = <<>> /\ cache' = cache)]_vars

\* C11's case: a record BatchSave whose wrapped BatchSave failed returned the
\* error and left a cache that holds entries alone.
C11_Witness ==
    /\ cout.op = "RecordBatchSave"
    /\ cout.repoErr
    /\ cout.err
    /\ cout.calls = <<>>
    /\ RecordKey("id", cout.args[1].tableId, cout.args[1].id) \in DOMAIN cache

\* C12: a write of a wrapper returns an error if and only if the wrapped
\* repository's mutation returned one, whatever the cache Delete and
\* InvalidatePattern calls returned.
C12_WriteFailsIffMutationFails ==
    cout.op \in Writes => (cout.err <=> cout.repoErr)

\* C12's case: a record BatchSave succeeded although its cache Delete and
\* InvalidatePattern calls failed.
C12_Witness ==
    /\ cout.op = "RecordBatchSave"
    /\ ~cout.err
    /\ Len(cout.calls) >= 2
    /\ \A i \in DOMAIN cout.calls : cout.calls[i].res = "fail"

\* What the wrapped repository holds for the arguments of the cached read `o`.
RepoAnswer(o) ==
    CASE o.op = "FieldFindByID" -> fldStore[o.args[1]]
      [] o.op = "FieldFindByTableID" -> [fields |-> FieldsOf(o.args[1], FieldIdSeq)]
      [] o.op = "RecordFindByTableAndID" -> recStore[<<o.args[1], o.args[2]>>]
      [] o.op = "RecordList" ->
            RepoList(o.args[1],
                     CHOOSE l \in Limits : ToString(l) = o.args[2],
                     CHOOSE x \in Offsets : ToString(x) = o.args[3])

\* C13: a cached read (field FindByID and FindByTableID, record FindByTableAndID
\* and List) in which the provider's Get or Set failed has called the wrapped
\* repository once and returns what that call returned: its error if it returned
\* one, and otherwise no error and the repository's answer.
C13_ProviderFailureDegradesToRepository ==
    (cout.op \in CachedReads /\ AnyFailed(cout.calls)) =>
        /\ Len(cout.repo) = 1
        /\ cout.err <=> cout.repoErr
        /\ ~cout.err => cout.result = RepoAnswer(cout)

\* C13's case: a record List whose Get and whose Set both failed returned the
\* repository's page without an error.
C13_Witness ==
    /\ cout.op = "RecordList"
    /\ Len(cout.calls) = 2
    /\ cout.calls[1].res = "fail"
    /\ cout.calls[2].res = "fail"
    /\ ~cout.err
    /\ cout.result = RepoAnswer(cout)
    /\ cout.result.total = 1


(***************************************************************************)
(* Teardown, submit without a subscription, failed subscribes, error       *)
(* events and batches.                                                     *)
(***************************************************************************)
Teardowns == {"unsubscribeRecord", "unsubscribeRecords", "unsubscribeAll", "cleanup"}

\* The handles a step destroys.
DestroyedByStep == {h \in 1..Len(docs) : docs'[h].destroys > docs[h].destroys}

C15_NotSubscribedFails ==
    (out.kind = "submitFieldUpdate" /\ subscribedDocs[out.rec] = NoDoc)
        => (out.result = "not-subscribed" /\ out.submitted = <<>>)

\* A field update with a value to write, on a record whose subscribe is still
\* in flight, has failed.
C15_Witness ==
    /\ out.kind = "submitFieldUpdate"
    /\ subscribedDocs[out.rec] = NoDoc
    /\ \E i \in DOMAIN pending : pending[i].rec = out.rec /\ ~pending[i].stale
    /\ out.newValue \notin {Undefined, Null}
    /\ out.result = "not-subscribed"


\* C16: while the transport is not connected or the table id is not set (never
\* set, or cleared by cleanup), no step acquires a handle, attaches an event
\* adapter, registers a listener or suspends a subscribeRecord call, and a
\* subscribeRecord call made then fails at once with an error and leaves
\* subscribedDocs (so getSubscribedCount), eventHandlers and the handles as
\* they were.
C16_SubscribeFailsWhenNotReady ==
    [][(~connected \/ tableId = NoTable) =>
          /\ Len(docs') = Len(docs)
          /\ \A h \in 1..Len(docs) : docs'[h].adapters = docs[h].adapters
          /\ \A r \in Records : eventHandlers'[r] \subseteq eventHandlers[r]
          /\ Len(pending') <= Len(pending)
          /\ (out'.kind = "subscribeRecord" /\ pending' = pending)
                => /\ out'.result = "error"
                   /\ UNCHANGED <<subscribedDocs, eventHandlers, docs>>]_vars

\* subscribeRecord has thrown on a connected transport after cleanup cleared the
\* table id: handles were acquired before, none now.
C16_Witness ==
    /\ out.kind = "subscribeRecord"
    /\ out.result = "error"
    /\ "batch" \notin DOMAIN out
    /\ connected
    /\ tableId = NoTable
    /\ Len(docs) >= 1


\* The number of adapters of the listener l in the delivery list to.
Deliveries(to, l) == Cardinality({i \in DOMAIN to : to[i] = l})

\* C17: an error event on the handle stored for a record does not tear the
\* subscription down: the stored handles, the registered listeners and the
\* handles are as before; each listener registered for the record receives one
\* event with no operations that carries the handle's data, or empty data when
\* it has none; and an op event the handle emits next is delivered to the same
\* listeners.
C17_ErrorKeepsSubscription ==
    [][/\ (out'.kind = "error" /\ subscribedDocs[out'.rec] = out'.doc) =>
             /\ UNCHANGED <<subscribedDocs, eventHandlers, docs>>
             /\ out'.event.op = <<>>
             /\ out'.event.data = IF docs[out'.doc].data = "some" THEN "some" ELSE "empty"
             /\ \A l \in eventHandlers[out'.rec] : Deliveries(out'.to, l) = 1
       /\ (out.kind = "error" /\ out'.kind = "op" /\ out'.doc = out.doc) => out'.to = out.to]_vars


DocEvents == {"load", "op", "error"}

\* C18: cleanup unsubscribes, then disconnects, then clears the table id, and
\* when it returns every handle that was acquired is destroyed and the registry
\* stores none; from then on, while the transport stays released and the table
\* id cleared (also when a subscribeRecord was awaiting its handle when cleanup
\* ran), the registry stores no handle and no document event reaches a listener.
C18_CleanupReleasesEverything ==
    [][/\ out'.kind = "cleanup" =>
             /\ out'.order = <<"unsubscribeAll", "disconnect", "tableId = null">>
             /\ ~connected' /\ tableId' = NoTable
             /\ \A h \in 1..Len(docs') : docs'[h].destroys > 0
             /\ \A r \in Records : subscribedDocs'[r] = NoDoc
       /\ (~connected /\ tableId = NoTable) =>
             /\ \A r \in Records : subscribedDocs'[r] = NoDoc
             /\ out'.kind \in DocEvents => out'.to = <<>>]_vars


\* A subscribeRecord call of a batch has settled.
BatchStep == out.kind \in {"subscribed", "subscribeRecord"} /\ "batch" \in DOMAIN out

\* C19: subscribeRecords completes only when every subscribeRecord it started
\* has settled: at the step at which it resolves or rejects no call it started
\* is still pending; it resolves only on the success of a call, and the failure
\* of a call it awaits rejects it.
C19_BatchCompletesAfterAllSettled ==
    BatchStep =>
        /\ out.batch \in {"resolved", "rejected"}
              => \A i \in DOMAIN pending : pending[i].batch # "abandoned"
        /\ out.batch = "resolved" => out.kind = "subscribed"
        /\ (out.kind = "subscribeRecord" /\ out.batch # "none") => out.batch = "rejected"


\* C20: every subscribeRecord attempt ends Active or torn down.  Once no call is
\* in flight, a record with no Active listener (every attempt on it has failed,
\* was cancelled by unsubscribeRecord while in flight, or was unsubscribed) has
\* no undestroyed handle stored in the registry, no registered listener, and no
\* event adapter attached to an undestroyed handle.
C20_AttemptEndsActiveOrTornDown ==
    pending = <<>> =>
        \A r \in Records :
            active[r] = {} =>
                /\ subscribedDocs[r] = NoDoc \/ ~Live(subscribedDocs[r])
                /\ eventHandlers[r] = {}
                /\ \A h \in LiveHandlesOf(r) : docs[h].adapters = <<>>


(***************************************************************************)
(* Batch writes, deletes by id, field mutations: what the cache holds      *)
(* after a write whose cache calls all succeeded.                          *)
(***************************************************************************)
BatchSaves == {"FieldBatchSave", "RecordBatchSave"}

\* The write `o` succeeded and so did every cache call it issued.
CleanWrite(o) == ~o.err /\ ~AnyFailed(o.calls)

\* The key k is a collection-read or list-read entry of the table t.
IsTableEntry(k, t) ==
    \/ k = FieldKey("table", t)
    \/ Len(k) >= 3 /\ k[1] = "record" /\ k[2] = "list" /\ k[3] = t

\* C21: after a successful BatchSave of a wrapper (fields or records), for
\* every saved entity the cache holds neither its point-read entry nor a
\* collection or list entry of its table.
C21_BatchSaveInvalidatesAll ==
    (cout.op \in BatchSaves /\ CleanWrite(cout)) =>
        \A i \in DOMAIN cout.args :
            /\ FieldKey("id", cout.args[i].id) \notin DOMAIN cache
            /\ RecordKey("id", cout.args[i].tableId, cout.args[i].id) \notin DOMAIN cache
            /\ \A k \in DOMAIN cache : ~IsTableEntry(k, cout.args[i].tableId)


DeletesById == {"RecordBatchDelete", "RecordDelete", "FieldBatchDelete"}

\* The point-read keys of the id that the delete `o` was given, under any table.
PointKeysOfId(o, id) ==
    IF o.op = "FieldBatchDelete"
    THEN {FieldKey("id", id)}
    ELSE {RecordKey("id", t, id) : t \in Tables}

\* C22: after a successful delete that is not given the table (record
\* BatchDelete, record Delete, field BatchDelete) the cache holds no point-read
\* entry of a deleted id under any table.
C22_DeleteByIdInvalidates ==
    (cout.op \in DeletesById /\ CleanWrite(cout)) =>
        \A i \in DOMAIN cout.args : PointKeysOfId(cout, cout.args[i]) \cap DOMAIN cache = {}


FieldMutations ==
    {"FieldSave", "FieldDelete", "FieldBatchSave", "FieldBatchDelete", "FieldUpdateOrder"}

\* The ids of the fields that the field mutation `o` was given.
MutatedFields(o) ==
    CASE o.op = "FieldBatchSave" -> {o.args[i].id : i \in DOMAIN o.args}
      [] o.op = "FieldBatchDelete" -> Range(o.args)
      [] OTHER -> {o.args[1]}

\* C23: after a successful mutation of a field through CachedFieldRepository
\* (Save, Delete, BatchSave, BatchDelete, UpdateOrder) the cache holds no
\* collection-read entry field:table:<tableId> of the table the field was in or
\* is in.
C23_FieldMutationInvalidatesTable ==
    [][(cout'.op \in FieldMutations /\ CleanWrite(cout')) =>
          \A f \in MutatedFields(cout') :
              /\ fldStore[f] # Nil => FieldKey("table", fldStore[f].tableId) \notin DOMAIN cache'
              /\ fldStore'[f] # Nil => FieldKey("table", fldStore'[f].tableId) \notin DOMAIN cache']_vars


(***************************************************************************)
(* Delivery of the events of a handle to the listeners of its record.      *)
(***************************************************************************)
\* C25: each op event and each error event that a handle of a record emits is
\* delivered exactly once to every listener registered for that record, also to
\* a listener that was passed to subscribeRecord more than once.
C25_EachEventOncePerListener ==
    out.kind \in {"op", "error"} =>
        \A l \in eventHandlers[out.rec] : Deliveries(out.to, l) = 1

\* C28: an event (load, op or error) of a handle of a record reaches only
\* listeners that are registered for the record: a listener whose registration
\* unsubscribeRecord removed is not invoked again, whatever subscribeRecord
\* calls follow.
C28_NoEventAfterUnsubscribe ==
    out.kind \in DocEvents => Range(out.to) \subseteq eventHandlers[out.rec]


(***************************************************************************)
(* The frame of the record writes that are given the table.                *)
(***************************************************************************)
TableWrites == {"RecordSave", "RecordDeleteByTableAndID", "RecordBatchSave"}

\* The (table, id) pairs of the records that the write `o` was given.
WrittenRecords(o) ==
    IF o.op = "RecordBatchSave"
    THEN {<<o.args[i].tableId, o.args[i].id>> : i \in DOMAIN o.args}
    ELSE {<<o.args[1], o.args[2]>>}

\* The key k is the point-read key of a record written by `o` or a list key
\* record:list:<tableId>:<limit>:<offset> of the table of one.
InvalidatedBy(o, k) ==
    \E w \in WrittenRecords(o) :
        \/ k = <<"record", "id", w[1], w[2]>>
        \/ Len(k) = 5 /\ k[1] = "record" /\ k[2] = "list" /\ k[3] = w[1]

\* C29: a record write that is given the table (Save, DeleteByTableAndID,
\* BatchSave) removes from the cache only point-read keys of the records written
\* and list keys of their tables, and leaves every other entry (the entries of
\* other tables, the point-read entries of other records) with its value; when
\* the write and its cache calls succeed it removes all of those keys.
C29_RecordWriteFrame ==
    [][cout'.op \in TableWrites =>
          /\ \A k \in DOMAIN cache' : k \in DOMAIN cache /\ cache'[k] = cache[k]
          /\ \A k \in DOMAIN cache \ DOMAIN cache' : InvalidatedBy(cout', k)
          /\ CleanWrite(cout') => \A k \in DOMAIN cache' : ~InvalidatedBy(cout', k)]_vars

\* A record Save of r1 in t1 has removed the entries of r1 and of the lists of
\* t1; the point-read entries of r2 in t1 and of r1 in t2 and a list entry of t2
\* are still cached.
C29_Witness ==
    /\ cout.op = "RecordSave"
    /\ CleanWrite(cout)
    /\ cout.args[1] = "t1" /\ cout.args[2] = "r1"
    /\ RecordKey("id", "t1", "r2") \in DOMAIN cache
    /\ RecordKey("id", "t2", "r1") \in DOMAIN cache
    /\ ListKey("t2", 1, 0) \in DOMAIN cache
    /\ \A k \in DOMAIN cache : ~InvalidatedBy(cout, k)

(***************************************************************************)
(* The claims about calls that overlap.                                    *)
(***************************************************************************)
BothReturned == inflight.read = Idle /\ inflight.save = Idle

\* C24: when a FindByTableAndID races with a Save of the same record, the Save's
\* invalidation removes any stale value the read puts into the cache: in every
\* interleaving, once both calls have returned (and no provider call has
\* failed), the cache holds no point entry whose value differs from the record
\* in the store.
C24_RaceLeavesNoStaleEntry ==
    (BothReturned /\ ~providerFailed) =>
        \A k \in DOMAIN recStore :
            RecordKey("id", k[1], k[2]) \in DOMAIN cache
                => cache[RecordKey("id", k[1], k[2])] = recStore[k]

(***************************************************************************)
(* The claims about transactions.                                          *)
(***************************************************************************)
\* What the store holds for a read with the arguments of the call o.
StoreAnswer(o) ==
    IF o.op = "RecordFindByTableAndID" THEN recStore[<<o.args[1], o.args[2]>>]
    ELSE LET p == CHOOSE q \in Limits \X Offsets :
                      o.args = <<o.args[1], ToString(q[1]), ToString(q[2])>>
         IN  RepoList(o.args[1], p[1], p[2])

\* C26: a value read through the wrapper inside a write transaction is never
\* stored in the cache, so that a read outside a transaction (of a record or of
\* a list) never returns a value that only a rolled-back transaction saw: with
\* no provider failure, it returns what the store holds.
C26_RollbackLeavesNoTrace ==
    (/\ cout.op \in {"RecordFindByTableAndID", "RecordList"}
     /\ ~cout.inTx
     /\ ~cout.err
     /\ ~providerFailed)
        => cout.result = StoreAnswer(cout)

(***************************************************************************)
(* The claims about GetDB.                                                 *)
(***************************************************************************)
\* C27, termination: on every chain of wrappers a GetDB under way returns.
C27_GetDBTerminates == (getdb.pc = "run") ~> (getdb.pc = "done")

\* C27: GetDB returns the database handle of the repository reached by
\* unwrapping the nested cache wrappers when that repository has a GetDB, and
\* nil when it has none.
C27_GetDBUnwraps ==
    getdb.pc = "done" =>
        getdb.result = (IF getdb.inner.hasGetDB THEN getdb.inner.db ELSE NilDB)

====
